---- MODULE Spec2Model ----
(***************************************************************************)
(* Broadlink IR/RF cover (homeassistant/components/broadlink/cover.py):    *)
(* one BroadlinkCover entity with its two _subCover halves (main, tilt),   *)
(* the timers the halves register with the Home Assistant scheduler and    *)
(* the packets they hand to the device.                                    *)
(*                                                                         *)
(* Time.  The code only ever uses differences of instants (now - start,    *)
(* start + duration), so every stored instant is kept relative to the      *)
(* current instant: utcnow is 0, an instant in the past is negative, a     *)
(* timer carries the time left until it is due.  The unit is 1/Sec of a    *)
(* second.  AdvanceTime shifts every stored instant.  _travel_time_start   *)
(* and _travel_time_stop are read only while _position_start is set        *)
(* (_update_position, line 642), so they stop ageing once it is cleared.   *)
(*                                                                         *)
(* Optional values.  Python's None is the empty tuple, a present value x   *)
(* is <<x>>.                                                               *)
(*                                                                         *)
(* Handlers run to completion one at a time (single event loop); the       *)
(* outcome of the one transport call a handler awaits is an input of the   *)
(* action.                                                                 *)
(***************************************************************************)
EXTENDS Integers, Sequences, FiniteSets, TLC

None == <<>>
Some(x) == <<x>>
Val(o) == o[1]

POSITION_MIN == 0
POSITION_MAX == 100
TRAVEL_TIME_MAX == 300

COVER_CLOSED == 1
COVER_CLOSING == 2
COVER_OPENED == 3
COVER_OPENING == 4

STATE_OPENING == "opening"
STATE_CLOSING == "closing"
STATE_CLOSED == "closed"

\* time units per second (timedelta(seconds=...))
Sec == 100
\* timedelta(seconds=1.0): period of the position tracking timer
TrackingInterval == 1 * Sec
\* travel_duration > 2.0: the tracking timer is registered only above this
TrackingThreshold == 2 * Sec

Axes == {"main", "tilt"}

(***************************************************************************)
(* Bounds of the model.                                                    *)
(***************************************************************************)
\* most timers one axis may have pending at once
MaxTimers == 3
\* most service calls made to one cover in one run
MaxCalls == 2
\* how far the environment lets time pass in one step (besides running to
\* the next due timer)
Delays == {75}
\* the position argument of the set-position service calls
Targets == {-7, 30, 80, 100}
\* timer handles
TimerIds == 1..(MaxTimers + 3)

Max(a, b) == IF a >= b THEN a ELSE b
Min(a, b) == IF a <= b THEN a ELSE b
Abs(a) == IF a >= 0 THEN a ELSE -a

\* Python 3 round(num/den) for den > 0: to nearest, ties to even
round(num, den) ==
    LET q == num \div den
        r == num % den
    IN  IF 2 * r < den THEN q
        ELSE IF 2 * r > den THEN q + 1
        ELSE IF q % 2 = 0 THEN q ELSE q + 1

VARIABLES
    COVER_DEBUG,   \* the module's debug switch (line 64), fixed per build
    sub,           \* sub[a]: the fields of the _subCover of axis a
    cover,         \* the fields of the BroadlinkCover itself
    timers,        \* timers[a]: timers of axis a pending in the scheduler
    last,          \* what the last handler was and did (history)
    begun,         \* begun[a]: the call that began the latest traverse (history)
    latest,        \* latest[a]: no service call was made to axis a since
                   \* the one in begun[a] (history)
    calls          \* number of service calls made so far

vars == <<COVER_DEBUG, sub, cover, timers, last, begun, latest, calls>>

(***************************************************************************)
(* Configuration (COVER_SCHEMA): payloads are optional, travel times are   *)
(* seconds in 0..TRAVEL_TIME_MAX and default to 0.                         *)
(***************************************************************************)
AxisConfig(open, close, stop, opening_time, closing_time) ==
    [command_open |-> open, command_close |-> close, command_stop |-> stop,
     opening_time |-> opening_time, closing_time |-> closing_time]

FullAxis(a, opening_time, closing_time) ==
    AxisConfig(Some(<<a, "open">>), Some(<<a, "close">>), Some(<<a, "stop">>),
               opening_time, closing_time)

OpenCloseAxis(a) ==
    AxisConfig(Some(<<a, "open">>), Some(<<a, "close">>), None, 0, 0)

NoAxis == AxisConfig(None, None, None, 0, 0)

\* TRAVEL_TIME: vol.Range(min=0, max=TRAVEL_TIME_MAX)
TRAVEL_TIME(time) == time \in 0..TRAVEL_TIME_MAX

CoverConfigs ==
    { [main |-> FullAxis("main", 2, 8), tilt |-> NoAxis],
      [main |-> NoAxis, tilt |-> FullAxis("tilt", 4, 5)],
      [main |-> OpenCloseAxis("main"), tilt |-> OpenCloseAxis("tilt")],
      [main |-> OpenCloseAxis("main"), tilt |-> FullAxis("tilt", 0, 3)],
      [main |-> FullAxis("main", 10, 8), tilt |-> NoAxis] }

\* the feature flags with set-position granted on the three payloads alone,
\* whatever the travel times
supported_features_any_time(config) ==
    (IF config.main.command_open # None THEN {"SUPPORT_OPEN"} ELSE {})
    \cup (IF config.main.command_close # None THEN {"SUPPORT_CLOSE"} ELSE {})
    \cup (IF config.main.command_stop # None THEN {"SUPPORT_STOP"} ELSE {})
    \cup (IF /\ config.main.command_open # None
             /\ config.main.command_close # None
             /\ config.main.command_stop # None
          THEN {"SUPPORT_SET_POSITION"} ELSE {})
    \cup (IF config.tilt.command_open # None THEN {"SUPPORT_OPEN_TILT"} ELSE {})
    \cup (IF config.tilt.command_close # None THEN {"SUPPORT_CLOSE_TILT"} ELSE {})
    \cup (IF config.tilt.command_stop # None THEN {"SUPPORT_STOP_TILT"} ELSE {})
    \cup (IF /\ config.tilt.command_open # None
             /\ config.tilt.command_close # None
             /\ config.tilt.command_stop # None
          THEN {"SUPPORT_SET_TILT_POSITION"} ELSE {})

\* BroadlinkCover.__init__: the feature flags
supported_features(config) ==
    (IF config.main.command_open # None THEN {"SUPPORT_OPEN"} ELSE {})
    \cup (IF config.main.command_close # None THEN {"SUPPORT_CLOSE"} ELSE {})
    \cup (IF config.main.command_stop # None THEN {"SUPPORT_STOP"} ELSE {})
    \cup (IF /\ config.main.command_open # None
             /\ config.main.command_close # None
             /\ config.main.command_stop # None
             /\ config.main.opening_time > 0
             /\ config.main.closing_time > 0
          THEN {"SUPPORT_SET_POSITION"} ELSE {})
    \cup (IF config.tilt.command_open # None THEN {"SUPPORT_OPEN_TILT"} ELSE {})
    \cup (IF config.tilt.command_close # None THEN {"SUPPORT_CLOSE_TILT"} ELSE {})
    \cup (IF config.tilt.command_stop # None THEN {"SUPPORT_STOP_TILT"} ELSE {})
    \cup (IF /\ config.tilt.command_open # None
             /\ config.tilt.command_close # None
             /\ config.tilt.command_stop # None
             /\ config.tilt.opening_time > 0
             /\ config.tilt.closing_time > 0
          THEN {"SUPPORT_SET_TILT_POSITION"} ELSE {})

\* _subCover.__init__; a speed is the fraction num/den in positions per second
subCover_init(c, is_tilt) ==
    [_is_tilt |-> is_tilt,
     _command_open |-> c.command_open,
     _command_close |-> c.command_close,
     _command_stop |-> c.command_stop,
     _opening_time |-> c.opening_time,
     _closing_time |-> c.closing_time,
     _status |-> None,
     _position |-> None,
     _position_set |-> None,
     _position_start |-> None,
     _unsub_tracking_interval_listener |-> None,
     _unsub_travel_duration_listener |-> None,
     _travel_time_start |-> None,
     _travel_time_stop |-> None,
     _opening_speed |-> IF c.opening_time > 0
                        THEN <<POSITION_MAX, c.opening_time>>
                        ELSE <<POSITION_MAX, 1>>,
     _closing_speed |-> IF c.closing_time > 0
                        THEN <<-POSITION_MAX, c.closing_time>>
                        ELSE <<-POSITION_MAX, 1>>,
     _speed |-> None,
     position |-> None]

\* BroadlinkCover.__init__
BroadlinkCover_init(config) ==
    [_supported_features |-> supported_features(config),
     added |-> FALSE,
     _is_opening |-> None,
     _is_closing |-> None,
     _is_closed |-> None]

(***************************************************************************)
(* The scheduler (homeassistant.helpers.event).  A timer is                *)
(* [id, kind, due]: due is the time left until it fires.  The handle the   *)
(* registration returns is the timer's id; calling a handle removes the    *)
(* timer if it is still pending and does nothing otherwise.                *)
(***************************************************************************)
unsub(t, handle) == {x \in t : x.id # Val(handle)}

\* the smallest id that names neither a pending timer nor a held handle
FreshId(used) ==
    CHOOSE i \in TimerIds : i \notin used /\ \A j \in 1..(i - 1) : j \in used

HeldIds(s) ==
    (IF s._unsub_tracking_interval_listener # None
     THEN {Val(s._unsub_tracking_interval_listener)} ELSE {})
    \cup (IF s._unsub_travel_duration_listener # None
          THEN {Val(s._unsub_travel_duration_listener)} ELSE {})

async_track_point_in_utc_time(t, id, point_in_time) ==
    t \cup {[id |-> id, kind |-> "point_in_utc_time", due |-> point_in_time]}

async_track_time_interval(t, id, interval) ==
    t \cup {[id |-> id, kind |-> "time_interval", due |-> interval]}

utcnow == 0

(***************************************************************************)
(* _subCover.  A handler works on w = [s, t, requests, written]: the       *)
(* fields of the half, its pending timers, the packets handed to the       *)
(* device so far, what its _async_send_packet call returned (None if it    *)
(* made none) and whether async_write_ha_state was called.                 *)
(***************************************************************************)
World(s, t) ==
    [s |-> s, t |-> t, requests |-> <<>>, send |-> None, written |-> FALSE]

\* _async_send_packet; ok: the device request does not raise
_async_send_packet(w, packet, ok) ==
    IF packet = None THEN [w |-> [w EXCEPT !.send = Some(TRUE)], ret |-> TRUE]
    ELSE IF COVER_DEBUG THEN [w |-> [w EXCEPT !.send = Some(TRUE)], ret |-> TRUE]
    ELSE [w |-> [w EXCEPT !.requests = Append(@, Val(packet)),
                          !.send = Some(ok)],
          ret |-> ok]

\* _update_position without the clamp to POSITION_MIN..POSITION_MAX
_update_position_unclamped(s, now) ==
    IF s._position_start = None \/ s._travel_time_start = None THEN s
    ELSE LET speed == Val(s._speed)
         IN  [s EXCEPT !._position =
                 Some(Val(s._position_start)
                      + round((now - Val(s._travel_time_start)) * speed[1],
                              Sec * speed[2]))]

\* _update_position with int() in the place of round()
_update_position_truncating(s, now) ==
    IF s._position_start = None \/ s._travel_time_start = None THEN s
    ELSE LET travel_time == now - Val(s._travel_time_start)
             speed == Val(s._speed)
             travel_pos == (travel_time * speed[1]) \div (Sec * speed[2])
             position == Val(s._position_start) + travel_pos
         IN  [s EXCEPT !._position =
                 Some(Max(POSITION_MIN, Min(position, POSITION_MAX)))]

\* _update_position: round(total_seconds * speed), clamped
_update_position(s, now) ==
    IF s._position_start = None \/ s._travel_time_start = None THEN s
    ELSE LET travel_time == now - Val(s._travel_time_start)
             speed == Val(s._speed)
             travel_pos == round(travel_time * speed[1], Sec * speed[2])
             position == Val(s._position_start) + travel_pos
         IN  [s EXCEPT !._position =
                 Some(Max(POSITION_MIN, Min(position, POSITION_MAX)))]

\* _listeners_stop that forgets to call the tracking timer's handle
_listeners_stop_keeps_tracking(w) ==
    IF w.s._unsub_tracking_interval_listener # None
    THEN [w |-> [w EXCEPT !.t = IF w.s._unsub_travel_duration_listener # None
                                THEN unsub(w.t, w.s._unsub_travel_duration_listener)
                                ELSE w.t,
                          !.s._unsub_tracking_interval_listener = None,
                          !.s._unsub_travel_duration_listener = None],
          ret |-> TRUE]
    ELSE [w |-> w, ret |-> FALSE]

\* _listeners_stop
_listeners_stop(w) ==
    IF w.s._unsub_tracking_interval_listener # None
    THEN LET t1 == unsub(w.t, w.s._unsub_tracking_interval_listener)
             t2 == IF w.s._unsub_travel_duration_listener # None
                   THEN unsub(t1, w.s._unsub_travel_duration_listener)
                   ELSE t1
         IN  [w |-> [w EXCEPT !.t = t2,
                              !.s._unsub_tracking_interval_listener = None,
                              !.s._unsub_travel_duration_listener = None],
              ret |-> TRUE]
    ELSE [w |-> w, ret |-> FALSE]

\* reconcile that reports a traverse whenever position_start is set
reconcile_by_position_start(w, now) ==
    LET st == _listeners_stop(w)
    IN  IF w.s._position_start # None
        THEN [w |-> [st.w EXCEPT !.s = _update_position(st.w.s, now)],
              ret |-> TRUE]
        ELSE [w |-> st.w, ret |-> FALSE]

\* if self._listeners_stop(): self._update_position(now), as
\* _listeners_start and async_stop_cover begin; ret is what _listeners_stop
\* returned
reconcile(w, now) ==
    LET st == _listeners_stop(w)
    IN  IF st.ret
        THEN [w |-> [st.w EXCEPT !.s = _update_position(st.w.s, now)],
              ret |-> TRUE]
        ELSE [w |-> st.w, ret |-> FALSE]

\* abs((position_set - position) / speed), in time units
TravelDuration(position_set, position, speed) ==
    (Abs(position_set - position) * speed[2] * Sec) \div Abs(speed[1])

\* _listeners_start with the tracking timer registered from 2.0 s on
_listeners_start_tracks_from_threshold(w) ==
    LET now == utcnow
        st == _listeners_stop(w)
        s1 == IF st.ret THEN _update_position(st.w.s, now) ELSE st.w.s
        speed == IF s1._status = Some(COVER_CLOSING)
                 THEN s1._closing_speed ELSE s1._opening_speed
        position_start ==
            IF s1._position = None
            THEN (IF s1._status = Some(COVER_CLOSING)
                  THEN POSITION_MAX ELSE POSITION_MIN)
            ELSE Val(s1._position)
        travel_duration ==
            IF s1._position = None
            THEN (IF s1._status = Some(COVER_CLOSING)
                  THEN s1._closing_time ELSE s1._opening_time) * Sec
            ELSE TravelDuration(Val(s1._position_set), Val(s1._position), speed)
        travel_time_stop == now + travel_duration
        id1 == FreshId({x.id : x \in st.w.t} \cup HeldIds(s1))
        t1 == async_track_point_in_utc_time(st.w.t, id1, travel_time_stop)
        tracking == travel_duration >= TrackingThreshold
        id2 == FreshId({x.id : x \in t1} \cup HeldIds(s1) \cup {id1})
        t2 == IF tracking
              THEN async_track_time_interval(t1, id2, TrackingInterval)
              ELSE t1
        s2 == [s1 EXCEPT
                 !._speed = Some(speed),
                 !._position_start = Some(position_start),
                 !._travel_time_start = Some(now),
                 !._travel_time_stop = Some(travel_time_stop),
                 !._unsub_travel_duration_listener = Some(id1),
                 !._unsub_tracking_interval_listener =
                     IF tracking THEN Some(id2) ELSE @]
    IN  [st.w EXCEPT !.s = s2, !.t = t2]

\* _listeners_start
_listeners_start(w) ==
    LET now == utcnow
        st == _listeners_stop(w)
        s1 == IF st.ret THEN _update_position(st.w.s, now) ELSE st.w.s
        speed == IF s1._status = Some(COVER_CLOSING)
                 THEN s1._closing_speed ELSE s1._opening_speed
        position_start ==
            IF s1._position = None
            THEN (IF s1._status = Some(COVER_CLOSING)
                  THEN POSITION_MAX ELSE POSITION_MIN)
            ELSE Val(s1._position)
        travel_duration ==
            IF s1._position = None
            THEN (IF s1._status = Some(COVER_CLOSING)
                  THEN s1._closing_time ELSE s1._opening_time) * Sec
            ELSE TravelDuration(Val(s1._position_set), Val(s1._position), speed)
        travel_time_stop == now + travel_duration
        id1 == FreshId({x.id : x \in st.w.t} \cup HeldIds(s1))
        t1 == async_track_point_in_utc_time(st.w.t, id1, travel_time_stop)
        tracking == travel_duration > TrackingThreshold
        id2 == FreshId({x.id : x \in t1} \cup HeldIds(s1) \cup {id1})
        t2 == IF tracking
              THEN async_track_time_interval(t1, id2, TrackingInterval)
              ELSE t1
        s2 == [s1 EXCEPT
                 !._speed = Some(speed),
                 !._position_start = Some(position_start),
                 !._travel_time_start = Some(now),
                 !._travel_time_stop = Some(travel_time_stop),
                 !._unsub_travel_duration_listener = Some(id1),
                 !._unsub_tracking_interval_listener =
                     IF tracking THEN Some(id2) ELSE @]
    IN  [st.w EXCEPT !.s = s2, !.t = t2]

async_write_ha_state(w) == [w EXCEPT !.written = TRUE]

\* _subCover.async_close_cover
async_close_cover(w, ok) ==
    LET snd == _async_send_packet(w, w.s._command_close, ok)
    IN  IF snd.ret
        THEN async_write_ha_state(_listeners_start(
                 [snd.w EXCEPT !.s._status = Some(COVER_CLOSING),
                               !.s._position_set = Some(POSITION_MIN)]))
        ELSE snd.w

\* _subCover.async_open_cover
async_open_cover(w, ok) ==
    LET snd == _async_send_packet(w, w.s._command_open, ok)
    IN  IF snd.ret
        THEN async_write_ha_state(_listeners_start(
                 [snd.w EXCEPT !.s._status = Some(COVER_OPENING),
                               !.s._position_set = Some(POSITION_MAX)]))
        ELSE snd.w

\* COVER_CLOSED if self._position == POSITION_MIN else COVER_OPENED
TerminalStatus(position) ==
    IF position = Some(POSITION_MIN) THEN COVER_CLOSED ELSE COVER_OPENED

\* async_stop_cover that does not look at what the send returned
async_stop_cover_unchecked(w, ok) ==
    LET snd == _async_send_packet(w, w.s._command_stop, ok)
        st == _listeners_stop(snd.w)
        s1 == IF st.ret THEN _update_position(st.w.s, utcnow) ELSE st.w.s
    IN  async_write_ha_state(
            [st.w EXCEPT !.s = [s1 EXCEPT
                !._status = Some(TerminalStatus(s1._position)),
                !._position_set = s1._position,
                !._position_start = None]])

\* _subCover.async_stop_cover
async_stop_cover(w, ok) ==
    LET snd == _async_send_packet(w, w.s._command_stop, ok)
        st == _listeners_stop(snd.w)
        s1 == IF st.ret THEN _update_position(st.w.s, utcnow) ELSE st.w.s
    IN  IF snd.ret
        THEN async_write_ha_state(
                 [st.w EXCEPT !.s = [s1 EXCEPT
                     !._status = Some(TerminalStatus(s1._position)),
                     !._position_set = s1._position,
                     !._position_start = None]])
        ELSE snd.w

\* max(POSITION_MIN, min(round(position, 0), POSITION_MAX)) of a whole number
ClampTarget(position) == Max(POSITION_MIN, Min(position, POSITION_MAX))

\* async_set_cover_position that returns early only for an unknown position
async_set_cover_position_unknown_only(w, kw_position, ok) ==
    LET position == ClampTarget(kw_position)
        closing == position < Val(w.s._position)
        command == IF closing THEN w.s._command_close ELSE w.s._command_open
        w1 == [w EXCEPT !.s._position_set = Some(position),
                        !.s._status = IF closing THEN Some(COVER_CLOSING)
                                      ELSE Some(COVER_OPENING)]
        snd == _async_send_packet(w1, command, ok)
    IN  IF position = POSITION_MIN THEN w
        ELSE IF position = POSITION_MAX THEN w
        ELSE IF w.s._position = None
             THEN async_write_ha_state(w)
        ELSE IF snd.ret
             THEN async_write_ha_state(_listeners_start(snd.w))
             ELSE snd.w

\* _subCover.async_set_cover_position.  For the two end positions the
\* handler returns the coroutine object of async_close_cover /
\* async_open_cover without awaiting it; its caller
\* (BroadlinkCover.async_set_cover_position) awaits only the handler and
\* drops the returned object, so the close / open body never runs.
async_set_cover_position(w, kw_position, ok) ==
    LET position == ClampTarget(kw_position)
        closing == position < Val(w.s._position)
        command == IF closing THEN w.s._command_close ELSE w.s._command_open
        w1 == [w EXCEPT !.s._position_set = Some(position),
                        !.s._status = IF closing THEN Some(COVER_CLOSING)
                                      ELSE Some(COVER_OPENING)]
        snd == _async_send_packet(w1, command, ok)
    IN  IF position = POSITION_MIN THEN w
        ELSE IF position = POSITION_MAX THEN w
        ELSE IF w.s._position \in {None, Some(position)}
             THEN async_write_ha_state(w)
        ELSE IF snd.ret
             THEN async_write_ha_state(_listeners_start(snd.w))
             ELSE snd.w

\* _subCover.restore_position: assigns the attribute "position"
restore_position(s, position) == [s EXCEPT !.position = position]

\* _async_track_travel_duration that does not call _listeners_stop
_async_track_travel_duration_keeps_listeners(w, now, ok) ==
    LET snd == IF w.s._position_set \notin {Some(POSITION_MIN), Some(POSITION_MAX)}
               THEN _async_send_packet(w, w.s._command_stop, ok)
               ELSE [w |-> w, ret |-> TRUE]
        s1 == _update_position(snd.w.s, now)
        s2 == IF s1._position_set = Some(POSITION_MIN)
              THEN [s1 EXCEPT !._position = Some(POSITION_MIN)]
              ELSE IF s1._position_set = Some(POSITION_MAX)
              THEN [s1 EXCEPT !._position = Some(POSITION_MAX)]
              ELSE s1
    IN  async_write_ha_state(
            [snd.w EXCEPT !.s = [s2 EXCEPT
                !._position_start = None,
                !._status = Some(TerminalStatus(s2._position))]])

\* _async_track_travel_duration that leaves the traverse as it is when the
\* stop packet could not be sent
_async_track_travel_duration_checks_send(w, now, ok) ==
    LET snd == IF w.s._position_set \notin {Some(POSITION_MIN), Some(POSITION_MAX)}
               THEN _async_send_packet(w, w.s._command_stop, ok)
               ELSE [w |-> w, ret |-> TRUE]
        st == _listeners_stop(snd.w)
        s1 == _update_position(st.w.s, now)
        s2 == IF s1._position_set = Some(POSITION_MIN)
              THEN [s1 EXCEPT !._position = Some(POSITION_MIN)]
              ELSE IF s1._position_set = Some(POSITION_MAX)
              THEN [s1 EXCEPT !._position = Some(POSITION_MAX)]
              ELSE s1
    IN  IF snd.ret
        THEN async_write_ha_state(
                 [st.w EXCEPT !.s = [s2 EXCEPT
                     !._position_start = None,
                     !._status = Some(TerminalStatus(s2._position))]])
        ELSE snd.w

\* _subCover._async_track_travel_duration.  The results of _listeners_stop
\* and _update_position are bound as the elements of one-element sets, so
\* that each is computed once.
_async_track_travel_duration(w, now, ok) ==
    LET snd == IF w.s._position_set \notin {Some(POSITION_MIN), Some(POSITION_MAX)}
               THEN _async_send_packet(w, w.s._command_stop, ok)
               ELSE [w |-> w, ret |-> TRUE]
        Finish(st, s1) ==
            LET s2 == IF s1._position_set = Some(POSITION_MIN)
                      THEN [s1 EXCEPT !._position = Some(POSITION_MIN)]
                      ELSE IF s1._position_set = Some(POSITION_MAX)
                      THEN [s1 EXCEPT !._position = Some(POSITION_MAX)]
                      ELSE s1
            IN  async_write_ha_state(
                    [st.w EXCEPT !.s = [s2 EXCEPT
                        !._position_start = None,
                        !._status = Some(TerminalStatus(s2._position))]])
    IN  CHOOSE r \in UNION {{Finish(st, s1) :
                                s1 \in {_update_position(st.w.s, now)}} :
                             st \in {_listeners_stop(snd.w)}} : TRUE

\* _subCover._async_track_cover_position
_async_track_cover_position(w, now) ==
    async_write_ha_state([w EXCEPT !.s = _update_position(w.s, now)])

(***************************************************************************)
(* BroadlinkCover: restore at startup and the service calls, each gated by *)
(* its feature flag.                                                       *)
(***************************************************************************)
\* what async_get_last_state may return: nothing, or a state with its
\* current_position / current_tilt_position attributes
LastState(state, current_position, current_tilt_position) ==
    [state |-> state, current_position |-> current_position,
     current_tilt_position |-> current_tilt_position]

LastStates ==
    { None,
      Some(LastState(STATE_CLOSING, Some(40), Some(40))) }

\* BroadlinkCover._restore_state
_restore_state(c, state) ==
    LET c0 == [c EXCEPT !._is_opening = Some(FALSE),
                        !._is_closing = Some(FALSE),
                        !._is_closed = Some(FALSE)]
    IN  IF state = STATE_OPENING THEN [c0 EXCEPT !._is_opening = Some(TRUE)]
        ELSE IF state = STATE_CLOSING THEN [c0 EXCEPT !._is_closing = Some(TRUE)]
        ELSE IF state = STATE_CLOSED THEN [c0 EXCEPT !._is_closed = Some(TRUE)]
        ELSE c0

\* BroadlinkCover.current_cover_position / current_cover_tilt_position
current_cover_position ==
    IF "SUPPORT_SET_POSITION" \in cover._supported_features
    THEN sub.main._position ELSE None

current_cover_tilt_position ==
    IF "SUPPORT_SET_TILT_POSITION" \in cover._supported_features
    THEN sub.tilt._position ELSE None

\* BroadlinkCover.is_closed / is_closing / is_opening
is_closed == sub.main._status = Some(COVER_CLOSED)
is_closing == sub.main._status = Some(COVER_CLOSING)
is_opening == sub.main._status = Some(COVER_OPENING)

\* the record of a handler of axis a: its position argument, what its send
\* returned, the packets it handed to the device, whether it published the
\* state, whether the timer that called it was the one its handle names
Last(op, a, position, w, current) ==
    [op |-> op, axis |-> a, position |-> position, saved_state |-> None,
     send |-> w.send, requests |-> w.requests, written |-> w.written,
     current |-> current]

NoLast(op) ==
    [op |-> op, axis |-> "main", position |-> None, saved_state |-> None,
     send |-> None, requests |-> <<>>, written |-> FALSE, current |-> FALSE]

\* a traverse is in progress (_position_start is set)
InProgress(s) == s._position_start # None

\* BroadlinkCover.async_added_to_hass, once, before any service call
async_added_to_hass ==
    /\ ~cover.added
    /\ \E saved_state \in LastStates :
         /\ cover' = [(IF saved_state # None
                       THEN _restore_state(cover, Val(saved_state).state)
                       ELSE cover) EXCEPT !.added = TRUE]
         /\ sub' = [a \in Axes |->
                      IF saved_state = None THEN sub[a]
                      ELSE IF a = "main" /\ current_cover_position = None
                      THEN restore_position(sub[a], Val(saved_state).current_position)
                      ELSE IF a = "tilt" /\ current_cover_tilt_position = None
                      THEN restore_position(sub[a], Val(saved_state).current_tilt_position)
                      ELSE sub[a]]
         /\ last' = [NoLast("async_added_to_hass") EXCEPT
                         !.saved_state = saved_state]
    /\ UNCHANGED <<COVER_DEBUG, timers, begun, latest, calls>>

\* a handler of axis a ran and left w, with the timers it leaves written to
\* both axes as if the two halves kept their timers in one place
Ran_shared_timers(op, a, position, w, current) ==
    /\ Cardinality(w.t) <= MaxTimers
    /\ sub' = [sub EXCEPT ![a] = w.s]
    /\ timers' = [b \in Axes |-> w.t]
    /\ last' = Last(op, a, position, w, current)
    /\ begun' = begun
    /\ latest' = latest
    /\ UNCHANGED <<COVER_DEBUG, cover>>

\* a handler of axis a ran and left w
Ran(op, a, position, w, current) ==
    /\ Cardinality(w.t) <= MaxTimers
    /\ sub' = [sub EXCEPT ![a] = w.s]
    /\ timers' = [timers EXCEPT ![a] = w.t]
    /\ last' = Last(op, a, position, w, current)
    /\ begun' = [begun EXCEPT ![a] =
                    IF /\ op \in {"async_close_cover", "async_open_cover",
                                  "async_set_cover_position"}
                       /\ w.send = Some(TRUE)
                    THEN Some([op |-> op, position |-> position])
                    ELSE IF op = "async_stop_cover" /\ w.send = Some(TRUE)
                    THEN None
                    ELSE @]
    /\ latest' = [latest EXCEPT ![a] =
                     IF op \in {"async_close_cover", "async_open_cover",
                                "async_stop_cover", "async_set_cover_position"}
                     THEN op # "async_stop_cover" /\ w.send = Some(TRUE)
                     ELSE @]
    /\ UNCHANGED <<COVER_DEBUG, cover>>

W(a) == World(sub[a], timers[a])

\* the entity is in hass and the run has a service call left
ServiceCall ==
    /\ cover.added
    /\ calls < MaxCalls
    /\ calls' = calls + 1

BroadlinkCover_async_close_cover ==
    /\ ServiceCall
    /\ \E ok \in BOOLEAN :
         \E w \in {IF "SUPPORT_CLOSE" \in cover._supported_features
             THEN async_close_cover(W("main"), ok) ELSE W("main")} :
             Ran("async_close_cover", "main", None, w, FALSE)

BroadlinkCover_async_close_cover_tilt ==
    /\ ServiceCall
    /\ \E ok \in BOOLEAN :
         \E w \in {IF "SUPPORT_CLOSE_TILT" \in cover._supported_features
             THEN async_close_cover(W("tilt"), ok) ELSE W("tilt")} :
             Ran("async_close_cover", "tilt", None, w, FALSE)

BroadlinkCover_async_open_cover ==
    /\ ServiceCall
    /\ \E ok \in BOOLEAN :
         \E w \in {IF "SUPPORT_OPEN" \in cover._supported_features
             THEN async_open_cover(W("main"), ok) ELSE W("main")} :
             Ran("async_open_cover", "main", None, w, FALSE)

BroadlinkCover_async_open_cover_tilt ==
    /\ ServiceCall
    /\ \E ok \in BOOLEAN :
         \E w \in {IF "SUPPORT_OPEN_TILT" \in cover._supported_features
             THEN async_open_cover(W("tilt"), ok) ELSE W("tilt")} :
             Ran("async_open_cover", "tilt", None, w, FALSE)

BroadlinkCover_async_stop_cover ==
    /\ ServiceCall
    /\ \E ok \in BOOLEAN :
         \E w \in {IF "SUPPORT_STOP" \in cover._supported_features
             THEN async_stop_cover(W("main"), ok) ELSE W("main")} :
             Ran("async_stop_cover", "main", None, w, FALSE)

BroadlinkCover_async_stop_cover_tilt ==
    /\ ServiceCall
    /\ \E ok \in BOOLEAN :
         \E w \in {IF "SUPPORT_STOP_TILT" \in cover._supported_features
             THEN async_stop_cover(W("tilt"), ok) ELSE W("tilt")} :
             Ran("async_stop_cover", "tilt", None, w, FALSE)

BroadlinkCover_async_set_cover_position ==
    /\ ServiceCall
    /\ \E position \in Targets, ok \in BOOLEAN :
         \E w \in {IF "SUPPORT_SET_POSITION" \in cover._supported_features
             THEN async_set_cover_position(W("main"), position, ok)
             ELSE W("main")} :
             Ran("async_set_cover_position", "main", Some(position), w, FALSE)

BroadlinkCover_async_set_cover_tilt_position ==
    /\ ServiceCall
    /\ \E position \in Targets, ok \in BOOLEAN :
         \E w \in {IF "SUPPORT_SET_TILT_POSITION" \in cover._supported_features
             THEN async_set_cover_position(W("tilt"), position, ok)
             ELSE W("tilt")} :
             Ran("async_set_cover_position", "tilt", Some(position), w, FALSE)

(***************************************************************************)
(* The scheduler runs the callbacks of the timers that are due, in any     *)
(* order; a point-in-time timer fires once, an interval timer is re-armed. *)
(***************************************************************************)
TravelDurationTimerFires ==
    /\ UNCHANGED calls
    /\ \E a \in Axes : \E x \in timers[a] : \E ok \in BOOLEAN :
        /\ x.kind = "point_in_utc_time"
        /\ x.due = 0
        /\ \E w \in {_async_track_travel_duration(
                         World(sub[a], timers[a] \ {x}), utcnow, ok)} :
               Ran("_async_track_travel_duration", a, None, w,
                   sub[a]._unsub_travel_duration_listener = Some(x.id))

TrackingIntervalTimerFires ==
    /\ UNCHANGED calls
    /\ \E a \in Axes : \E x \in timers[a] :
        /\ x.kind = "time_interval"
        /\ x.due = 0
        /\ \E w \in {_async_track_cover_position(
                         World(sub[a], (timers[a] \ {x})
                                       \cup {[x EXCEPT !.due = TrackingInterval]}),
                         utcnow)} :
               Ran("_async_track_cover_position", a, None, w,
                   sub[a]._unsub_tracking_interval_listener = Some(x.id))

Pending == UNION {timers[a] : a \in Axes}

NextDue == CHOOSE d \in {x.due : x \in Pending} :
               \A x \in Pending : d <= x.due

\* time passes, never beyond the next due timer
AdvanceTime ==
    /\ Pending # {}
    /\ \E d \in Delays \cup {NextDue} :
         /\ d > 0
         /\ d <= NextDue
         /\ timers' = [a \in Axes |->
                          {[x EXCEPT !.due = @ - d] : x \in timers[a]}]
         /\ sub' = [a \in Axes |->
                      IF sub[a]._position_start = None THEN sub[a]
                      ELSE [sub[a] EXCEPT
                              !._travel_time_start = Some(Val(@) - d),
                              !._travel_time_stop = Some(Val(@) - d)]]
         /\ last' = NoLast("AdvanceTime")
    /\ UNCHANGED <<COVER_DEBUG, cover, begun, latest, calls>>

Init ==
    /\ COVER_DEBUG \in BOOLEAN
    /\ \E config \in CoverConfigs :
         /\ \A a \in Axes : /\ TRAVEL_TIME(config[a].opening_time)
                            /\ TRAVEL_TIME(config[a].closing_time)
         /\ sub = [a \in Axes |-> subCover_init(config[a], a = "tilt")]
         /\ cover = BroadlinkCover_init(config)
    /\ timers = [a \in Axes |-> {}]
    /\ calls = 0
    /\ begun = [a \in Axes |-> None]
    /\ latest = [a \in Axes |-> FALSE]
    /\ last = NoLast("__init__")

Next ==
    \/ async_added_to_hass
    \/ BroadlinkCover_async_close_cover
    \/ BroadlinkCover_async_close_cover_tilt
    \/ BroadlinkCover_async_open_cover
    \/ BroadlinkCover_async_open_cover_tilt
    \/ BroadlinkCover_async_stop_cover
    \/ BroadlinkCover_async_stop_cover_tilt
    \/ BroadlinkCover_async_set_cover_position
    \/ BroadlinkCover_async_set_cover_tilt_position
    \/ TravelDurationTimerFires
    \/ TrackingIntervalTimerFires
    \/ AdvanceTime

Spec == Init /\ [][Next]_vars

\* the scheduler runs every timer that is due, and time passes
Scheduler ==
    \/ TravelDurationTimerFires
    \/ TrackingIntervalTimerFires
    \/ AdvanceTime

Fairness == WF_vars(Scheduler)

LiveSpec == Spec /\ Fairness

(***************************************************************************)
(* The _subCover on its own: its four commands called directly, without    *)
(* the feature flags of BroadlinkCover in front of them.                   *)
(***************************************************************************)
subCover_async_close_cover ==
    /\ ServiceCall
    /\ \E a \in Axes, ok \in BOOLEAN :
         \E w \in {async_close_cover(W(a), ok)} :
             Ran("async_close_cover", a, None, w, FALSE)

subCover_async_open_cover ==
    /\ ServiceCall
    /\ \E a \in Axes, ok \in BOOLEAN :
         \E w \in {async_open_cover(W(a), ok)} :
             Ran("async_open_cover", a, None, w, FALSE)

subCover_async_stop_cover ==
    /\ ServiceCall
    /\ \E a \in Axes, ok \in BOOLEAN :
         \E w \in {async_stop_cover(W(a), ok)} :
             Ran("async_stop_cover", a, None, w, FALSE)

subCover_async_set_cover_position ==
    /\ ServiceCall
    /\ \E a \in Axes, position \in Targets, ok \in BOOLEAN :
         \E w \in {async_set_cover_position(W(a), position, ok)} :
             Ran("async_set_cover_position", a, Some(position), w, FALSE)

AxisNext ==
    \/ async_added_to_hass
    \/ subCover_async_close_cover
    \/ subCover_async_open_cover
    \/ subCover_async_stop_cover
    \/ subCover_async_set_cover_position
    \/ TravelDurationTimerFires
    \/ TrackingIntervalTimerFires
    \/ AdvanceTime

AxisSpec == Init /\ [][AxisNext]_vars

(***************************************************************************)
(* Properties.                                                             *)
(***************************************************************************)
TravelDurationTimers(a) == {x \in timers[a] : x.kind = "point_in_utc_time"}
TrackingIntervalTimers(a) == {x \in timers[a] : x.kind = "time_interval"}

\* C1: in every reachable state the estimated position of each axis is
\* unknown (None) or a value in POSITION_MIN..POSITION_MAX.
C1_PositionInRange ==
    \A a \in Axes :
        \/ sub[a]._position = None
        \/ Val(sub[a]._position) \in POSITION_MIN..POSITION_MAX

\* the tracking timer has recomputed the position of a traverse under way
C1_Witness ==
    \E a \in Axes :
        /\ last.op = "_async_track_cover_position"
        /\ last.axis = a
        /\ InProgress(sub[a])
        /\ sub[a]._position \notin {None, Some(POSITION_MIN), Some(POSITION_MAX)}

\* C2: at no time are two end-of-travel timers, or two tracking interval
\* timers, of the same axis pending: a command that begins a new traverse
\* has cancelled the timers of the previous one.
C2_OneTimerEach ==
    \A a \in Axes :
        /\ Cardinality(TravelDurationTimers(a)) <= 1
        /\ Cardinality(TrackingIntervalTimers(a)) <= 1

\* the position a traverse under way has reached now:
\* clamp(position_start + round(elapsed * speed), 0, 100)
ReconciledPosition(s) ==
    Max(POSITION_MIN,
        Min(Val(s._position_start)
            + round((utcnow - Val(s._travel_time_start)) * Val(s._speed)[1],
                    Sec * Val(s._speed)[2]),
            POSITION_MAX))

\* the step is a successful close of axis a during an opening traverse, or a
\* successful open during a closing traverse
Interrupts(a) ==
    /\ last'.axis = a
    /\ last'.send = Some(TRUE)
    /\ InProgress(sub[a])
    /\ \/ last'.op = "async_close_cover" /\ sub[a]._status = Some(COVER_OPENING)
       \/ last'.op = "async_open_cover" /\ sub[a]._status = Some(COVER_CLOSING)

\* C3: when close() (open()) succeeds while a traverse in the opposite
\* direction is in progress, the new traverse starts at the position
\* reconciled at that moment, whatever the duration of the interrupted
\* traverse.
C3_InterruptStartsAtReconciled ==
    [][\A a \in Axes :
          Interrupts(a) =>
              sub'[a]._position_start = Some(ReconciledPosition(sub[a]))]_vars

\* C4: when the transport reports failure for the packet of open(), close()
\* or stop, the fields of both halves and the pending timers are the same
\* after the call as before it, no traverse is begun and nothing is
\* published.
C4_FailedSendChangesNothing ==
    [][(/\ last'.op \in {"async_open_cover", "async_close_cover",
                         "async_stop_cover"}
        /\ last'.send = Some(FALSE))
       => (/\ sub' = sub
           /\ timers' = timers
           /\ begun' = begun
           /\ ~last'.written)]_vars

\* a stop failed while a traverse with both timers was under way
C4_Witness ==
    /\ last.op = "async_stop_cover"
    /\ last.send = Some(FALSE)
    /\ InProgress(sub[last.axis])
    /\ TrackingIntervalTimers(last.axis) # {}
    /\ TravelDurationTimers(last.axis) # {}

\* C5: when the transport reports failure for the packet of a set-position
\* call with an intermediate target, status and position_set keep their
\* values and the pending timers are unchanged.
C5_FailedGotoChangesNothing ==
    [][\A a \in Axes :
          (/\ last'.op = "async_set_cover_position"
           /\ last'.axis = a
           /\ last'.send = Some(FALSE))
          => (/\ sub'[a]._status = sub[a]._status
              /\ sub'[a]._position_set = sub[a]._position_set
              /\ timers' = timers)]_vars

\* C6: when the end-of-travel timer of a traverse begun by a successful
\* set-position call to p fires, the position is exactly p.
C6_GotoEndsAtTarget ==
    \A a \in Axes :
        (/\ last.op = "_async_track_travel_duration"
         /\ last.axis = a
         /\ last.current
         /\ begun[a] # None
         /\ Val(begun[a]).op = "async_set_cover_position")
        => sub[a]._position = Some(ClampTarget(Val(Val(begun[a]).position)))

SetPositionSupported(a) ==
    IF a = "main"
    THEN "SUPPORT_SET_POSITION" \in cover._supported_features
    ELSE "SUPPORT_SET_TILT_POSITION" \in cover._supported_features

\* C7: once a set-position call whose target clamps to 0 (to 100) has
\* completed without a transport failure, the status is Closing (Opening),
\* position_set is 0 (100) and an end-of-travel timer is pending.
C7_GotoEndIsCloseOrOpen ==
    \A a \in Axes :
        (/\ last.op = "async_set_cover_position"
         /\ last.axis = a
         /\ SetPositionSupported(a)
         /\ last.send # Some(FALSE))
        => /\ ClampTarget(Val(last.position)) = POSITION_MIN
              => /\ sub[a]._status = Some(COVER_CLOSING)
                 /\ sub[a]._position_set = Some(POSITION_MIN)
                 /\ TravelDurationTimers(a) # {}
           /\ ClampTarget(Val(last.position)) = POSITION_MAX
              => /\ sub[a]._status = Some(COVER_OPENING)
                 /\ sub[a]._position_set = Some(POSITION_MAX)
                 /\ TravelDurationTimers(a) # {}

\* C8: a set-position call with an intermediate target, made when the
\* position is unknown or already equal to the target, hands no packet to
\* the device, leaves the fields of the halves and the pending timers as
\* they were and publishes the state.
C8_GotoNothingToDo ==
    [][\A a \in Axes :
          (/\ last'.op = "async_set_cover_position"
           /\ last'.axis = a
           /\ SetPositionSupported(a)
           /\ ClampTarget(Val(last'.position)) \notin {POSITION_MIN, POSITION_MAX}
           /\ sub[a]._position \in {None, Some(ClampTarget(Val(last'.position)))})
          => (/\ sub' = sub
              /\ timers' = timers
              /\ last'.requests = <<>>
              /\ last'.send = None
              /\ last'.written)]_vars

\* a set-position call to the position the axis is known to be at
C8_Witness ==
    \E a \in Axes :
        /\ last.op = "async_set_cover_position"
        /\ last.axis = a
        /\ SetPositionSupported(a)
        /\ ClampTarget(Val(last.position)) \notin {POSITION_MIN, POSITION_MAX}
        /\ sub[a]._position = Some(ClampTarget(Val(last.position)))
        /\ last.requests = <<>>
        /\ last.written

\* C9: restoring a freshly constructed cover from a saved state sets the
\* status of the main axis from the label and its position to the saved
\* position, and starts no traverse and registers no timer.
C9_RestoreSetsStatusAndPosition ==
    (last.op = "async_added_to_hass" /\ last.saved_state # None)
    => LET saved_state == Val(last.saved_state)
       IN  /\ saved_state.state = STATE_OPENING
              => sub.main._status = Some(COVER_OPENING)
           /\ saved_state.state = STATE_CLOSING
              => sub.main._status = Some(COVER_CLOSING)
           /\ saved_state.state = STATE_CLOSED
              => sub.main._status = Some(COVER_CLOSED)
           /\ sub.main._position = saved_state.current_position
           /\ ~InProgress(sub.main)
           /\ timers.main = {}

\* the k-th service call was a successful open (close) of axis a
\* the latest service call made to axis a was a successful op
Latest(op, a) ==
    /\ latest[a]
    /\ begun[a] # None
    /\ Val(begun[a]).op = op

\* axis a rests at position with no timer pending
AtRest(a, status, position) ==
    /\ sub[a]._status = Some(status)
    /\ sub[a]._position = Some(position)
    /\ timers[a] = {}

\* C10: after a successful open() (close()) of an axis, if no further
\* service call is made to that axis, the axis eventually has status Opened
\* and position 100 (Closed and 0) with none of its timers pending, provided
\* the scheduler runs every timer that is due.
C10_AutoStop ==
    (\E a \in Axes : Latest("async_open_cover", a) \/ Latest("async_close_cover", a))
        ~> (\A a \in Axes :
               /\ Latest("async_open_cover", a)
                     => AtRest(a, COVER_OPENED, POSITION_MAX)
               /\ Latest("async_close_cover", a)
                     => AtRest(a, COVER_CLOSED, POSITION_MIN))

\* an open made as the second service call, from a known position between
\* the ends (its traverse is shorter than a full one), has come to rest at
\* 100 when its end-of-travel timer fired
C10_Witness ==
    \E a \in Axes :
        /\ AtRest(a, COVER_OPENED, POSITION_MAX)
        /\ Latest("async_open_cover", a)
        /\ last.op = "_async_track_travel_duration"
        /\ last.axis = a
        /\ Val(sub[a]._travel_time_stop) > Val(sub[a]._travel_time_start)
        /\ Val(sub[a]._travel_time_stop) - Val(sub[a]._travel_time_start)
              < sub[a]._opening_time * Sec
        /\ calls >= 2

\* the feature flag that BroadlinkCover tests before passing service call op
\* on to axis a
Flag(op, a) ==
    IF a = "main"
    THEN CASE op = "async_open_cover" -> "SUPPORT_OPEN"
           [] op = "async_close_cover" -> "SUPPORT_CLOSE"
           [] op = "async_stop_cover" -> "SUPPORT_STOP"
           [] op = "async_set_cover_position" -> "SUPPORT_SET_POSITION"
    ELSE CASE op = "async_open_cover" -> "SUPPORT_OPEN_TILT"
           [] op = "async_close_cover" -> "SUPPORT_CLOSE_TILT"
           [] op = "async_stop_cover" -> "SUPPORT_STOP_TILT"
           [] op = "async_set_cover_position" -> "SUPPORT_SET_TILT_POSITION"

ServiceOps ==
    {"async_open_cover", "async_close_cover", "async_stop_cover",
     "async_set_cover_position"}

\* the three payloads of axis a are configured and both travel times are
\* above zero
FullyConfigured(a) ==
    /\ sub[a]._command_open # None
    /\ sub[a]._command_close # None
    /\ sub[a]._command_stop # None
    /\ sub[a]._opening_time > 0
    /\ sub[a]._closing_time > 0

\* C11: the open / close / stop flag of an axis is set iff its payload is
\* configured and the set-position flag iff all three payloads are and both
\* travel times are above zero; a service call whose flag is not set hands
\* no packet to the device, attempts no send, and leaves the fields and the
\* pending timers of both axes as they were.
C11_CapabilityGating ==
    /\ [](\A a \in Axes :
            /\ Flag("async_open_cover", a) \in cover._supported_features
                  <=> sub[a]._command_open # None
            /\ Flag("async_close_cover", a) \in cover._supported_features
                  <=> sub[a]._command_close # None
            /\ Flag("async_stop_cover", a) \in cover._supported_features
                  <=> sub[a]._command_stop # None
            /\ Flag("async_set_cover_position", a) \in cover._supported_features
                  <=> FullyConfigured(a))
    /\ [][(/\ last'.op \in ServiceOps
           /\ Flag(last'.op, last'.axis) \notin cover._supported_features)
          => (/\ sub' = sub
              /\ timers' = timers
              /\ last'.requests = <<>>
              /\ last'.send = None)]_vars

\* a set-position call was made to an axis that has its three payloads but
\* an opening time of zero, so that the call was not passed on
C11_Witness ==
    /\ last.op = "async_set_cover_position"
    /\ Flag(last.op, last.axis) \notin cover._supported_features
    /\ sub[last.axis]._command_open # None
    /\ sub[last.axis]._command_close # None
    /\ sub[last.axis]._command_stop # None
    /\ sub[last.axis]._opening_time = 0

\* the timers that the handles of axis a name
HeldTimers(a) == {x \in timers[a] : x.id \in HeldIds(sub[a])}

\* C12: when stop succeeds while a traverse is in progress, whatever its
\* duration, the timers of the traverse are no longer pending, the position
\* is the one reconciled at that moment, position_set equals the position,
\* position_start is absent and the status is Closed if the position is 0
\* and Opened otherwise.
C12_StopReconciles ==
    [][\A a \in Axes :
          (/\ last'.op = "async_stop_cover"
           /\ last'.axis = a
           /\ last'.send = Some(TRUE)
           /\ InProgress(sub[a]))
          => (/\ HeldTimers(a) \cap timers'[a] = {}
              /\ sub'[a]._position = Some(ReconciledPosition(sub[a]))
              /\ sub'[a]._position_set = sub'[a]._position
              /\ sub'[a]._position_start = None
              /\ sub'[a]._status = Some(TerminalStatus(sub'[a]._position)))]_vars

Moving == {Some(COVER_OPENING), Some(COVER_CLOSING)}

\* the step began a traverse of axis a: a successful open, close or
\* set-position call that left a traverse starting now
BeginsTraverse(a) ==
    /\ last'.axis = a
    /\ last'.op \in {"async_open_cover", "async_close_cover",
                     "async_set_cover_position"}
    /\ last'.send = Some(TRUE)
    /\ InProgress(sub'[a])
    /\ sub'[a]._travel_time_start = Some(utcnow)

\* C13: every change of the status of an axis is either a change to
\* Opening or Closing made by a command that begins a traverse (Opening on
\* open, Closing on close), or a change from Opening or Closing to Closed or
\* Opened made by stop or by the end-of-travel callback, Closed iff the
\* resulting position is 0.  So the status never goes from unknown to
\* Closed or Opened.
C13_StatusTransitions ==
    [][\A a \in Axes :
          sub'[a]._status # sub[a]._status
          => \/ /\ sub'[a]._status \in Moving
                /\ BeginsTraverse(a)
                /\ last'.op = "async_open_cover"
                      => sub'[a]._status = Some(COVER_OPENING)
                /\ last'.op = "async_close_cover"
                      => sub'[a]._status = Some(COVER_CLOSING)
             \/ /\ sub[a]._status \in Moving
                /\ sub'[a]._status \in {Some(COVER_CLOSED), Some(COVER_OPENED)}
                /\ last'.axis = a
                /\ last'.op \in {"async_stop_cover",
                                 "_async_track_travel_duration"}
                /\ sub'[a]._status = Some(COVER_CLOSED)
                      <=> sub'[a]._position = Some(POSITION_MIN)]_vars

\* the fields of a half that make up its state
Frame(s) ==
    <<s._status, s._position, s._position_set, s._position_start,
      s._travel_time_start, s._travel_time_stop>>

\* C14: a service call or timer callback of one axis leaves the status,
\* position, position_set, position_start, travel times and pending timers
\* of the other axis as they were; async_added_to_hass, which restores the
\* two axes one after the other, leaves them as they were on both.
C14_AxesIndependent ==
    [][\A a \in Axes : \A b \in Axes :
          (\/ /\ last'.op \in ServiceOps \cup {"_async_track_travel_duration",
                                                "_async_track_cover_position"}
                /\ last'.axis = a
                /\ b # a
           \/ last'.op = "async_added_to_hass")
          => (/\ Frame(sub'[b]) = Frame(sub[b])
              /\ timers'[b] = timers[b])]_vars

\* open of the main axis ran 0.75 s into a closing traverse of the tilt axis
C14_Witness ==
    /\ last.op = "async_open_cover"
    /\ last.axis = "main"
    /\ last.send = Some(TRUE)
    /\ InProgress(sub.main)
    /\ InProgress(sub.tilt)
    /\ sub.tilt._status = Some(COVER_CLOSING)
    /\ sub.tilt._travel_time_start = Some(-75)
    /\ TrackingIntervalTimers("tilt") # {}

\* C15: open() of a _subCover that has no open payload, and close() of one
\* that has no close payload, hands no packet to the device and leaves the
\* fields and the pending timers of the axis as they were.
C15_NoPayloadNoOp ==
    [][\A a \in Axes :
          (/\ last'.axis = a
           /\ \/ last'.op = "async_open_cover" /\ sub[a]._command_open = None
              \/ last'.op = "async_close_cover" /\ sub[a]._command_close = None)
          => (/\ last'.requests = <<>>
              /\ sub'[a] = sub[a]
              /\ timers'[a] = timers[a])]_vars

\* C16: in every reachable state the status of an axis is Closing or
\* Opening iff a traverse is in progress, it is Closed or Opened iff no
\* traverse is in progress and the position is known, and with no traverse
\* in progress it is Closed iff the position is 0.
C16_StatusMatchesTraverse ==
    \A a \in Axes :
        /\ sub[a]._status \in Moving <=> InProgress(sub[a])
        /\ sub[a]._status \in {Some(COVER_CLOSED), Some(COVER_OPENED)}
              <=> (~InProgress(sub[a]) /\ sub[a]._position # None)
        /\ ~InProgress(sub[a])
              => (sub[a]._status = Some(COVER_CLOSED)
                    <=> sub[a]._position = Some(POSITION_MIN))

\* the end-of-travel callback or a successful stop of axis a has just run
Ended(a) ==
    /\ last.axis = a
    /\ \/ last.op = "_async_track_travel_duration"
       \/ last.op = "async_stop_cover" /\ last.send = Some(TRUE)

DirectionSpeed(s) ==
    IF s._status = Some(COVER_CLOSING)
    THEN <<-POSITION_MAX, IF s._closing_time > 0 THEN s._closing_time ELSE 1>>
    ELSE <<POSITION_MAX, IF s._opening_time > 0 THEN s._opening_time ELSE 1>>

\* the half with opening time T, T seconds after open() at position 0
OpenedFromMin(T) ==
    LET s0 == [subCover_init(FullAxis("main", T, T), FALSE)
                   EXCEPT !._position = Some(POSITION_MIN)]
        w == async_open_cover(World(s0, {}), TRUE)
    IN  [w.s EXCEPT !._travel_time_start = Some(Val(@) - T * Sec)]

Duration(s) == Val(s._travel_time_stop) - Val(s._travel_time_start)

\* C19: a command that begins a traverse leaves, for an unknown position,
\* position_start 100 if closing and 0 if opening and the full configured
\* time of the direction as duration; otherwise position_start is the
\* position and the duration is |position_set - position| / |speed|.  The
\* traverse starts now, the end-of-travel timer is pending and due after
\* the duration, and the tracking timer is pending, due after 1 s, iff the
\* duration is above 2.0 s.
C19_TraverseTiming ==
    [][\A a \in Axes :
          BeginsTraverse(a) =>
            LET s == sub'[a]
                speed == Val(s._speed)
            IN  /\ s._position = None
                     => /\ s._position_start =
                              Some(IF s._status = Some(COVER_CLOSING)
                                   THEN POSITION_MAX ELSE POSITION_MIN)
                        /\ Duration(s) =
                              Sec * (IF s._status = Some(COVER_CLOSING)
                                     THEN s._closing_time ELSE s._opening_time)
                /\ s._position # None
                     => /\ s._position_start = s._position
                        /\ Duration(s) * Abs(speed[1]) =
                              Abs(Val(s._position_set) - Val(s._position))
                                  * speed[2] * Sec
                /\ [id |-> Val(s._unsub_travel_duration_listener),
                     kind |-> "point_in_utc_time",
                     due |-> Duration(s)] \in timers'[a]
                /\ s._unsub_tracking_interval_listener # None
                     <=> Duration(s) > 2 * Sec
                /\ (\E x \in timers'[a] :
                        /\ x.kind = "time_interval"
                        /\ x.due = 1 * Sec
                        /\ Some(x.id) = s._unsub_tracking_interval_listener)
                     <=> Duration(s) > 2 * Sec]_vars

\* a set-position call has begun a traverse of at most 2.0 s from a known
\* position, without a tracking timer
C19_Witness ==
    \E a \in Axes :
        /\ last.op = "async_set_cover_position"
        /\ last.axis = a
        /\ last.send = Some(TRUE)
        /\ InProgress(sub[a])
        /\ sub[a]._travel_time_start = Some(utcnow)
        /\ sub[a]._position # None
        /\ Duration(sub[a]) > 0
        /\ Duration(sub[a]) <= 2 * Sec
        /\ TrackingIntervalTimers(a) = {}

\* C20: in every reachable state of an axis, a second reconcile made right
\* after a first one, with no time elapsed, leaves the position and all
\* else as the first left them and reports no traverse; on an axis with no
\* traverse in progress the first reconcile changes nothing and reports no
\* traverse.
C20_ReconcileIdempotent ==
    \A a \in Axes :
        LET r1 == reconcile(W(a), utcnow)
            r2 == reconcile(r1.w, utcnow)
        IN  /\ r2.w.s._position = r1.w.s._position
            /\ r2.w = r1.w
            /\ ~r2.ret
            /\ ~InProgress(sub[a]) => (r1.w = W(a) /\ ~r1.ret)

\* a traverse is under way whose position a reconcile made now would change
C20_Witness ==
    \E a \in Axes :
        /\ InProgress(sub[a])
        /\ sub[a]._position # None
        /\ reconcile(W(a), utcnow).ret
        /\ reconcile(W(a), utcnow).w.s._position # sub[a]._position
        /\ reconcile(W(a), utcnow).w.t = {}

\* C21: whenever an axis has a traverse in progress whose start differs
\* from its target, status and the sign of speed point from the start to
\* the target: Opening with speed > 0 exactly if the target is above the
\* start, Closing with speed < 0 exactly if it is below.
C21_DirectionConsistent ==
    \A a \in Axes :
        LET s == sub[a]
        IN  (/\ InProgress(s)
             /\ s._position_set # None
             /\ s._position_start # s._position_set)
            => /\ (s._status = Some(COVER_OPENING) /\ Val(s._speed)[1] > 0)
                   <=> Val(s._position_set) > Val(s._position_start)
               /\ (s._status = Some(COVER_CLOSING) /\ Val(s._speed)[1] < 0)
                   <=> Val(s._position_set) < Val(s._position_start)

\* C22: when an end-of-travel callback runs on an axis whose position_set
\* is neither 0 nor 100, it hands the stop payload to _async_send_packet
\* once (which passes it on to the device unless the debug switch is on);
\* when position_set is 0 or 100 it sends nothing.  Whatever the send
\* returned, the callback clears position_start, sets the terminal status
\* of the resulting position and publishes the state.
C22_EndOfTravelStop ==
    [][\A a \in Axes :
          (last'.op = "_async_track_travel_duration" /\ last'.axis = a)
          => /\ IF sub[a]._position_set \in {Some(POSITION_MIN),
                                              Some(POSITION_MAX)}
                THEN /\ last'.send = None
                     /\ last'.requests = <<>>
                ELSE /\ last'.send # None
                     /\ last'.requests =
                            IF COVER_DEBUG \/ sub[a]._command_stop = None
                            THEN <<>>
                            ELSE <<Val(sub[a]._command_stop)>>
             /\ sub'[a]._position_start = None
             /\ sub'[a]._status = Some(TerminalStatus(sub'[a]._position))
             /\ last'.written]_vars

\* the end-of-travel callback of a traverse to a target between the ends
\* has run, its stop packet was handed to the device and failed, and the
\* axis is at rest at that target
C22_Witness ==
    \E a \in Axes :
        /\ last.op = "_async_track_travel_duration"
        /\ last.axis = a
        /\ last.current
        /\ last.send = Some(FALSE)
        /\ last.requests = <<Val(sub[a]._command_stop)>>
        /\ sub[a]._position_set \notin {None, Some(POSITION_MIN),
                                         Some(POSITION_MAX)}
        /\ sub[a]._position = sub[a]._position_set
        /\ ~InProgress(sub[a])
        /\ sub[a]._status = Some(COVER_OPENED)
        /\ last.written

====
